---- MODULE Spec2Model ----
(***************************************************************************)
(* Clue Hunt (hard mode), src/game.js: the seeded derivation of the clue   *)
(* words and their grid placement, and the click handlers that validate    *)
(* the player's answers.                                                   *)
(*                                                                         *)
(* Strings are sequences of one-character strings.  A 32-bit unsigned      *)
(* integer is a pair <<hi, lo>> of 16-bit halves, because the model        *)
(* checker's integers are signed 32-bit and the code's values reach        *)
(* 2^32 - 1.                                                               *)
(***************************************************************************)
EXTENDS Integers, Sequences, FiniteSets, TLC

(***************************************************************************)
(* Characters and strings                                                  *)
(***************************************************************************)
Digits == <<"0","1","2","3","4","5","6","7","8","9">>
Lower  == <<"a","b","c","d","e","f","g","h","i","j","k","l","m",
            "n","o","p","q","r","s","t","u","v","w","x","y","z">>
Upper  == <<"A","B","C","D","E","F","G","H","I","J","K","L","M",
            "N","O","P","Q","R","S","T","U","V","W","X","Y","Z">>

Range(s) == {s[i] : i \in DOMAIN s}

IndexOf(s, c) == CHOOSE i \in DOMAIN s : s[i] = c

DigitSet == Range(Digits)
LowerSet == Range(Lower)
UpperSet == Range(Upper)

\* String.prototype.charCodeAt for the ASCII characters the model uses.
charCodeAt(c) ==
  IF c \in DigitSet THEN 47 + IndexOf(Digits, c)
  ELSE IF c \in UpperSet THEN 64 + IndexOf(Upper, c)
  ELSE IF c \in LowerSet THEN 96 + IndexOf(Lower, c)
  ELSE IF c = "-" THEN 45
  ELSE IF c = " " THEN 32
  ELSE IF c = "!" THEN 33
  ELSE 63

UpperOf == [c \in LowerSet |-> Upper[IndexOf(Lower, c)]]
LowerOf == [c \in UpperSet |-> Lower[IndexOf(Upper, c)]]

\* String.prototype.toUpperCase and toLowerCase on one character.
toUpperCase(c) == IF c \in LowerSet THEN UpperOf[c] ELSE c

toLowerCase(c) == IF c \in UpperSet THEN LowerOf[c] ELSE c

\* The value of a missing array element or absent argument.
Undefined == <<"#undefined">>

\* The one element of a singleton set.  {f(v) : v \in {e}} computes e once and
\* names its value v, as an assignment to a local variable does in the code.
The(S) == CHOOSE e \in S : TRUE

\* Array.prototype.join on an array of strings.
RECURSIVE join(_, _)
join(arr, sep) ==
  IF Len(arr) = 0 THEN <<>>
  ELSE IF Len(arr) = 1 THEN arr[1]
  ELSE The({ arr[1] \o sep \o join(rest, sep) : rest \in {Tail(arr)} })

(***************************************************************************)
(* 32-bit unsigned arithmetic on <<hi, lo>>                                *)
(***************************************************************************)
W == 2^16

U32(hi, lo) == <<hi, lo>>

RECURSIVE XorBits(_, _, _)
XorBits(a, b, n) ==
  IF n = 0 THEN 0
  ELSE ((a + b) % 2) + 2 * XorBits(a \div 2, b \div 2, n - 1)

\* a ^ b
Xor32(a, b) == U32(XorBits(a[1], b[1], 16), XorBits(a[2], b[2], 16))

\* (a << k) >>> 0, for 0 < k < 16
Shl32(a, k) ==
  LET full == a[2] * 2^k
  IN  U32((a[1] * 2^k + (full \div W)) % W, full % W)

\* (a << 24) >>> 0
Shl24(a) == U32((a[2] * 2^8) % W, 0)

\* a >>> 17
Shr17(a) == U32(0, a[1] \div 2)

\* (a + b) >>> 0
Add32(a, b) ==
  LET s == a[2] + b[2]
  IN  U32((a[1] + b[1] + (s \div W)) % W, s % W)

\* Math.floor((x / 0xFFFFFFFF) * n) for 0 <= n < 2^24.  With M = 2^32 - 1 and
\* n*x = q*2^32 + r the quotient floor(n*x / M) is q, plus one when q + r >= M.
\* The double-precision result of the code equals this exact quotient for every
\* 32-bit x and every n the code passes (35, 26..29, 0xFFFFFF).
FloorMul(x, n) ==
  LET n0 == n % 256
      n1 == (n \div 256) % 256
      n2 == n \div W
      \* the partial products, each below 2^24
      t0 == n0 * x[2]
      t1 == n1 * x[2]
      t2 == n2 * x[2]
      t3 == n0 * x[1]
      t4 == n1 * x[1]
      t5 == n2 * x[1]
      \* n * x = q * 2^32 + r1 * 2^16 + r0
      d0 == t0 + (t1 % 256) * 256
      d1 == (d0 \div W) + (t1 \div 256) + t2 + t3 + (t4 % 256) * 256
      q  == (d1 \div W) + (t4 \div 256) + t5
      r0 == d0 % W
      r1 == d1 % W
      \* q + r >= 2^32 - 1 ?
      s0 == r0 + (q % W)
      s1 == r1 + (s0 \div W) + (q \div W)
      ge == \/ s1 >= W
            \/ (s1 = W - 1 /\ (s0 % W) = W - 1)
  IN  IF ge THEN q + 1 ELSE q

(***************************************************************************)
(* The program's constants                                                 *)
(***************************************************************************)
WORDS ==
  << <<"A","L","P","H","A">>, <<"B","R","A","V","O">>, <<"C","H","A","R","L","I","E">>,
     <<"D","E","L","T","A">>, <<"E","C","H","O">>, <<"F","O","X","T","R","O","T">>,
     <<"G","O","L","F">>, <<"H","O","T","E","L">>, <<"I","N","D","I","A">>,
     <<"J","U","L","I","E","T">>, <<"K","I","L","O">>, <<"L","I","M","A">>,
     <<"M","I","K","E">>, <<"N","O","V","E","M","B","E","R">>, <<"O","S","C","A","R">>,
     <<"P","A","P","A">>, <<"Q","U","E","B","E","C">>, <<"R","O","M","E","O">>,
     <<"S","I","E","R","R","A">>, <<"T","A","N","G","O">>, <<"U","N","I","F","O","R","M">>,
     <<"V","I","C","T","O","R">>, <<"W","H","I","S","K","E","Y">>, <<"X","R","A","Y">>,
     <<"Y","A","N","K","E","E">>, <<"Z","U","L","U">>, <<"P","E","N">>,
     <<"K","E","Y">>, <<"G","O","L","D">>, <<"S","T","E","E","L">>,
     <<"B","R","I","D","G","E">>, <<"R","I","V","E","R">>, <<"J","O","I","N">>,
     <<"P","L","A","C","E">>, <<"S","T","E","E","P">> >>

CLUE_COUNT == 10

totalCells == 8 * 4

(***************************************************************************)
(* Integer hash and generator                                              *)
(***************************************************************************)
\* n += (n<<1) + (n<<4) + (n<<7) + (n<<8) + (n<<24); n >>>= 0
mix(m) ==
  Add32(m, Add32(Shl32(m, 1), Add32(Shl32(m, 4),
    Add32(Shl32(m, 7), Add32(Shl32(m, 8), Shl24(m))))))

\* One round of the loop body of seedToInt.
seedRound(n, c) == The({mix(m) : m \in {Xor32(n, U32(0, charCodeAt(c)))}})

RECURSIVE seedFold(_, _)
seedFold(n, str) ==
  IF Len(str) = 0 THEN n
  ELSE The({seedFold(m, Tail(str)) : m \in {seedRound(n, Head(str))}})

\* 2166136261 = 0x811C9DC5 = 33052 * 2^16 + 40389
seedToInt(str) == seedFold(U32(33052, 40389), str)

\* One call of the closure xorshift32 returns: the new value of its x.
xorshift32(x0) ==
  The({ The({ The({ Xor32(b, Shl32(b, 5)) : b \in {Xor32(a, Shr17(a))} })
              : a \in {Xor32(v, Shl32(v, 13))} })
        : v \in {x0} })

\* rand that throws one value of the generator away before the one it returns.
randTwice(x0) == The({ xorshift32(x1) : x1 \in {xorshift32(x0)} })

\* rand(): the closure's state after the call; the value returned is that state
\* divided by 0xFFFFFFFF, which the callers only use as Math.floor(rand() * n).
rand(x0) == xorshift32(x0)

(***************************************************************************)
(* Clue selection                                                          *)
(***************************************************************************)
\* arr[i] for a zero-based i: undefined outside the array.
has(arr, i) == i + 1 \in DOMAIN arr

\* An array read that gives the last element for an index outside the array.
atLast(arr, i) == IF has(arr, i) THEN arr[i + 1] ELSE arr[Len(arr)]

at(arr, i) == IF has(arr, i) THEN arr[i + 1] ELSE Undefined

\* const idx = Math.floor(rand() * WORDS.length), x1 the generator after the draw
selectIndex(x1) == FloorMul(x1, Len(WORDS))

(***************************************************************************)
(* Grid placement                                                          *)
(***************************************************************************)
\* A cell no word was written to: none of --t, --c, --s is set.
emptyCell == [t |-> "", c |-> <<>>, s |-> ""]

CellIndex == 0 .. (totalCells - 1)

\* ch is one character; "" stands for a falsy ch (no character at that index).
charToken(ch) ==
  IF ch = "" THEN "."
  ELSE IF toUpperCase(ch) \in UpperSet THEN toUpperCase(ch)
  ELSE IF toUpperCase(ch) = "-" THEN "-"
  ELSE "."

HexDigits == Digits \o <<"a","b","c","d","e","f">>

RECURSIVE toString16(_)
toString16(n) ==
  IF n < 16 THEN <<HexDigits[n + 1]>>
  ELSE Append(toString16(n \div 16), HexDigits[(n % 16) + 1])

RECURSIVE padStart(_, _, _)
padStart(str, n, fill) ==
  IF Len(str) >= n THEN str ELSE padStart(<<fill>> \o str, n, fill)

\* '#' + (Math.floor(rand() * 0xFFFFFF) >>> 0).toString(16).padStart(6, '0')
colorCode(x1) ==
  The({ <<"#">> \o padStart(toString16(c), 6, "0") : c \in {FloorMul(x1, 16777215)} })

Min(a, b) == IF a < b THEN a ELSE b

\* const len = Math.min(chars.length, 6)
visibleLen(w) == Min(Len(w), 6)

\* startOffset over the whole grid, the word's length not taken off.
startOffsetWholeGrid(x1, len) == FloorMul(x1, totalCells)

\* const start = Math.floor(rand() * (totalCells - len))
startOffset(x1, len) == FloorMul(x1, totalCells - len)

(***************************************************************************)
(* Bounds and the inputs drawn from them                                   *)
(***************************************************************************)
\* Math.floor(Math.random() * 1e9) takes one of MaxRandom + 1 sample values.
MaxRandom == 1

\* _clueApi.revealWord is called with the indexes up to MaxOutside away from
\* the first and the last valid one.
MaxOutside == 1

RandomValues == {k * 123456789 : k \in 0 .. MaxRandom}

RevealIndexes ==
  ((0 - MaxOutside) .. 0) \cup ((CLUE_COUNT - 1) .. (CLUE_COUNT - 1 + MaxOutside))

\* Values of the ?seed= query parameter: absent, the seed of the documented
\* example, and a seed whose second draw returns exactly 1.0.
NoString == <<>>
SeedTest1 == <<"t","e","s","t","1">>
SeedBnrev == <<"B","n","r","e","v">>
ExternalSeeds == {NoString, SeedTest1, SeedBnrev}

(***************************************************************************)
(* Seed provider                                                           *)
(***************************************************************************)
Base36 == Digits \o Lower

\* Number.prototype.toString(36) of a non-negative integer
RECURSIVE toString36(_)
toString36(n) ==
  IF n < 36 THEN <<Base36[n + 1]>>
  ELSE Append(toString36(n \div 36), Base36[(n % 36) + 1])

\* getSeed that prefers the stored value to the ?seed= value.
getSeedStoredFirst(param, stored, rnd) ==
  The({ [seed |-> IF st1 = NoString THEN toString36(rnd) ELSE st1,
         storage |-> IF st1 = NoString THEN toString36(rnd) ELSE st1]
        : st1 \in {IF stored # NoString THEN stored ELSE param} })

\* getSeed(): param is the ?seed= value, stored the value in session storage,
\* rnd the value of Math.floor(Math.random() * 1e9) should it be needed.
\* Gives the seed returned and the storage left behind.
getSeed(param, stored, rnd) ==
  The({ [seed |-> IF st1 = NoString THEN toString36(rnd) ELSE st1,
         storage |-> IF st1 = NoString THEN toString36(rnd) ELSE st1]
        : st1 \in {IF param # NoString THEN param ELSE stored} })

(***************************************************************************)
(* Normalisation                                                           *)
(***************************************************************************)
\* The characters the pattern [^A-Za-z0-9\-] leaves in place.
KeptSet == UpperSet \cup LowerSet \cup DigitSet \cup {"-"}

\* s.replace(/[^A-Za-z0-9\-]/g, '')
strip(s) == SelectSeq(s, LAMBDA c : c \in KeptSet)

\* s.toUpperCase()
upperCased(s) == [i \in DOMAIN s |-> toUpperCase(s[i])]

\* s.replace(/[^A-Za-z0-9\-]/, ''), the pattern without its g flag: only the
\* first character outside the kept set goes.
stripFirst(s) ==
  IF \A i \in DOMAIN s : s[i] \in KeptSet THEN s
  ELSE The({ SubSeq(s, 1, k - 1) \o SubSeq(s, k + 1, Len(s))
             : k \in {i \in DOMAIN s : /\ s[i] \notin KeptSet
                                       /\ \A h \in 1 .. (i - 1) : s[h] \in KeptSet} })

\* norm with the pattern applied once instead of globally.
normStripOnce(s) == IF s = Undefined THEN <<>> ELSE upperCased(stripFirst(s))

\* norm that upper-cases and strips nothing.
normUnstripped(s) == IF s = Undefined THEN <<>> ELSE upperCased(s)

\* norm(s): (s || '').toString().replace(/[^A-Za-z0-9\-]/g, '').toUpperCase()
norm(s) ==
  IF s = Undefined THEN <<>>
  ELSE The({ upperCased(stripped) : stripped \in {strip(s)} })

(***************************************************************************)
(* State                                                                   *)
(***************************************************************************)
VARIABLES
  search,         \* the ?seed= value of location.search (NoString: absent)
  storage,        \* sessionStorage 'clue_seed' (NoString: absent)
  pc,             \* where the load handler is: "getSeed", "select", "place",
                  \* "chars", then "ready" (it returned) or "crashed" (it threw)
  seed,           \* const seed
  x,              \* let x of the one generator, rand
  clues,          \* const clues
  mapping,        \* const mapping
  cells,          \* the custom properties --t, --c, --s of the grid cells
  j,              \* let j of the inner placement loop
  current,        \* let current (0 before its declaration runs)
  answer,         \* answer.value
  hintBox,        \* hintBox.textContent
  correctLog,     \* the words of the 'Correct' lines of consoleLog, in order
  console,        \* what the console shows last: the arguments of the last
                  \* console.log, or the value a _clueApi call returned
  finalInput,     \* finalInput.value
  finalDisabled,  \* finalBtn.disabled and finalInput.disabled
  finalMsg,       \* finalMsg.textContent
  ns,             \* const ns of the regenerate click, until the reload reads it
  prev            \* the data derived by the document the reload replaced,
                  \* until the new document has derived its own

vars == <<search, storage, pc, seed, x, clues, mapping, cells, j, current,
          answer, hintBox, correctLog, console, finalInput, finalDisabled,
          finalMsg, ns, prev>>

\* The variables the derivation writes.
derivation == <<seed, x, clues, mapping, cells, j>>

\* The variables that stand for the document's controls and the console.
controls == <<current, answer, hintBox, correctLog, console, finalInput,
              finalDisabled, finalMsg>>

\* The page's markup ships the final passphrase controls disabled; the step
\* handler is what enables them.
finalInitiallyDisabled == TRUE

\* Messages: what clog, console.log and the textContent assignments carry.
MsgNone       == [kind |-> "none"]
MsgDevApi     == [kind |-> "devapi"]
MsgMissing    == [kind |-> "missing"]
MsgIncorrect  == [kind |-> "incorrect"]
MsgCorrect(w) == [kind |-> "correct", word |-> w]
MsgFinalOk    == [kind |-> "final-success"]
MsgFinalBad   == [kind |-> "final-incorrect"]
MsgRange      == [kind |-> "out-of-range"]

emptyGrid == [i \in CellIndex |-> emptyCell]

NoRun == [seed |-> NoString, clues |-> <<>>, mapping |-> <<>>, cells |-> emptyGrid]

\* A document whose script has not run yet.
Init ==
  /\ search \in ExternalSeeds
  /\ storage = NoString
  /\ pc = "getSeed"
  /\ seed = NoString
  /\ x = U32(0, 0)
  /\ clues = <<>>
  /\ mapping = <<>>
  /\ cells = emptyGrid
  /\ j = 0
  /\ current = 0
  /\ answer = NoString
  /\ hintBox = MsgNone
  /\ correctLog = <<>>
  /\ console = MsgNone
  /\ finalInput = NoString
  /\ finalDisabled = finalInitiallyDisabled
  /\ finalMsg = MsgNone
  /\ ns = NoString
  /\ prev = NoRun

(***************************************************************************)
(* The load handler, one step per loop iteration                           *)
(***************************************************************************)
\* A generator made from the value the regenerate click just stored, when there
\* is one, instead of the seed in use.
newGeneratorOfStored(seedStr) == seedToInt(IF ns # NoString THEN ns ELSE seedStr)

\* xorshift32(seedToInt(seed)): let x = seed >>> 0 of the new closure
newGenerator(seedStr) == seedToInt(seedStr)

\* const seed = getSeed(); const rand = xorshift32(seedToInt(seed))
GetSeed ==
  /\ pc = "getSeed"
  /\ \E rnd \in RandomValues :
       \E g \in {getSeed(search, storage, rnd)} :
         /\ seed' = g.seed
         /\ storage' = g.storage
         /\ x' = newGenerator(g.seed)
  /\ pc' = "select"
  /\ ns' = NoString
  /\ UNCHANGED <<search, clues, mapping, cells, j, prev>>
  /\ UNCHANGED controls

\* One iteration of the selection loop.
SelectClue ==
  /\ pc = "select"
  /\ Len(clues) < CLUE_COUNT
  /\ \E x1 \in {rand(x)} :
       /\ x' = x1
       /\ clues' = Append(clues, at(WORDS, selectIndex(x1)))
  /\ pc' = IF Len(clues) + 1 < CLUE_COUNT THEN "select" ELSE "place"
  /\ UNCHANGED <<search, storage, seed, mapping, cells, j, ns, prev>>
  /\ UNCHANGED controls

\* The head of one iteration of the placement loop: the start offset is drawn
\* and the mapping entry pushed.
PlaceWord ==
  /\ pc = "place"
  /\ Len(mapping) < Len(clues)
  /\ clues[Len(mapping) + 1] # Undefined
  /\ \E x1 \in {rand(x)}, w \in {clues[Len(mapping) + 1]} :
       /\ x' = x1
       /\ mapping' = Append(mapping, [word |-> w, len |-> visibleLen(w),
                                     start |-> startOffset(x1, visibleLen(w))])
  /\ j' = 0
  /\ pc' = "chars"
  /\ UNCHANGED <<search, storage, seed, clues, cells, ns, prev>>
  /\ UNCHANGED controls

\* One iteration of the inner loop: the cell start + j gets its token, its
\* colour (one draw) and --s: 0.
PlaceChar ==
  /\ pc = "chars"
  /\ \E m \in {mapping[Len(mapping)]}, x1 \in {rand(x)} :
       /\ j < m.len
       /\ x' = x1
       /\ cells' = [cells EXCEPT ![m.start + j] =
                      [t |-> charToken(m.word[j + 1]), c |-> colorCode(x1), s |-> "0"]]
       /\ pc' = IF j + 1 < m.len THEN "chars" ELSE "place"
  /\ j' = j + 1
  /\ UNCHANGED <<search, storage, seed, clues, mapping, ns, prev>>
  /\ UNCHANGED controls

\* w.split('') on an undefined clue throws: the handler ends there, before any
\* click handler or _clueApi exists.
LoadThrows ==
  /\ pc = "place"
  /\ Len(mapping) < Len(clues)
  /\ clues[Len(mapping) + 1] = Undefined
  /\ pc' = "crashed"
  /\ prev' = NoRun
  /\ UNCHANGED <<search, storage, ns>>
  /\ UNCHANGED derivation
  /\ UNCHANGED controls

\* The rest of the handler after the placement loop: _clueApi, the two clog
\* lines, let current = 1, the click handlers.
FinishLoad ==
  /\ pc = "place"
  /\ Len(mapping) >= Len(clues)
  /\ pc' = "ready"
  /\ current' = 1
  /\ console' = MsgDevApi
  /\ prev' = NoRun
  /\ UNCHANGED <<search, storage, ns, answer, hintBox, correctLog, finalInput,
                 finalDisabled, finalMsg>>
  /\ UNCHANGED derivation

(***************************************************************************)
(* What the player types                                                   *)
(***************************************************************************)
lowerCased(s) == [i \in DOMAIN s |-> toLowerCase(s[i])]

\* The same text as a player may type it: lower case, with blanks and
\* punctuation around it.
Sloppy(w) == <<" ">> \o lowerCased(w) \o <<"!", " ">>

\* Only characters that norm removes.
Junk == <<"!", " ">>

\* A word of the list other than w.
OtherWord(w) == IF w = WORDS[1] THEN WORDS[2] ELSE WORDS[1]

\* Answers typed at a step: nothing, only characters norm removes, the clue of
\* this step typed sloppily, the clue of the following step and the clue of the
\* step before.
StepInputs ==
  {NoString, Junk, at(clues, current % CLUE_COUNT)}
    \cup (IF has(clues, current - 1) THEN {Sloppy(at(clues, current - 1))} ELSE {})
    \cup (IF has(clues, current - 2) THEN {at(clues, current - 2)} ELSE {})

\* The clue words hyphen-joined, the right passphrase.
Passphrase == join(clues, <<"-">>)

\* The passphrase with its first word altered, with its last word omitted,
\* with its first two words exchanged, and joined without hyphens.
Altered   == join([clues EXCEPT ![1] = OtherWord(clues[1])], <<"-">>)
Omitted   == join(SubSeq(clues, 1, Len(clues) - 1), <<"-">>)
Reordered == join(<<clues[2], clues[1]>> \o SubSeq(clues, 3, Len(clues)), <<"-">>)
Unhyphened == join(clues, NoString)

FinalInputs ==
  {NoString, Sloppy(Passphrase), Altered, Omitted, Reordered, Unhyphened}

\* The player edits the answer field.
TypeAnswer ==
  /\ pc = "ready"
  /\ \E typed \in StepInputs : answer' = typed
  /\ UNCHANGED <<search, storage, pc, current, hintBox, correctLog, console,
                 finalInput, finalDisabled, finalMsg, ns, prev>>
  /\ UNCHANGED derivation

\* The player edits the passphrase field, which a disabled input does not allow.
TypeFinal ==
  /\ pc = "ready"
  /\ ~finalDisabled
  /\ \E typed \in FinalInputs : finalInput' = typed
  /\ UNCHANGED <<search, storage, pc, current, answer, hintBox, correctLog,
                 console, finalDisabled, finalMsg, ns, prev>>
  /\ UNCHANGED derivation

(***************************************************************************)
(* Step submission: the click handler of submitBtn                         *)
(***************************************************************************)
\* expectedStep with the index kept inside the array: past the last step the
\* last clue is still expected.
expectedStepClamped(cl, cur) == norm(at(cl, Min(cur, CLUE_COUNT) - 1))

\* expectedStep reading the clue one index further.
expectedStepShifted(cl, cur) == norm(at(cl, cur))

\* const expected = norm(clues[current - 1])
expectedStep(cl, cur) == norm(at(cl, cur - 1))

\* finalUnlocked one step early.
finalUnlockedEarly(cur) == cur >= CLUE_COUNT

\* current > CLUE_COUNT: the final controls are enabled
finalUnlocked(cur) == cur > CLUE_COUNT

SubmitClick ==
  /\ pc = "ready"
  /\ \E val \in {norm(answer)}, expected \in {expectedStep(clues, current)} :
       IF val = NoString
       THEN /\ hintBox' = MsgMissing
            /\ UNCHANGED <<current, answer, correctLog, console, finalDisabled>>
       ELSE IF val = expected
       THEN /\ console' = MsgCorrect(at(clues, current - 1))
            /\ correctLog' = Append(correctLog, at(clues, current - 1))
            /\ current' = current + 1
            /\ answer' = NoString
            /\ finalDisabled' =
                 IF finalUnlocked(current + 1) THEN FALSE ELSE finalDisabled
            /\ UNCHANGED hintBox
       ELSE /\ console' = MsgIncorrect
            /\ hintBox' = MsgIncorrect
            /\ UNCHANGED <<current, answer, correctLog, finalDisabled>>
  /\ UNCHANGED <<search, storage, pc, finalInput, finalMsg, ns, prev>>
  /\ UNCHANGED derivation

(***************************************************************************)
(* Hint: the click handler of hintBtn                                      *)
(***************************************************************************)
\* The text of the hint for the mapping entry m at index i.
hintMsg(i, m) == [kind |-> "hint", index |-> i, start |-> m.start, len |-> m.len]

\* hintIndex kept inside the array: past the last step the last entry is read.
hintIndexClamped(cur) == Min(cur, CLUE_COUNT) - 1

\* The index of const m = mapping[current - 1]
hintIndex(cur) == cur - 1

HintClick ==
  /\ pc = "ready"
  /\ \E i \in {hintIndex(current)} :
       IF ~has(mapping, i)
       THEN UNCHANGED <<console, hintBox>>
       ELSE /\ console' = hintMsg(current - 1, at(mapping, i))
            /\ hintBox' = hintMsg(current - 1, at(mapping, i))
  /\ UNCHANGED <<search, storage, pc, current, answer, correctLog, finalInput,
                 finalDisabled, finalMsg, ns, prev>>
  /\ UNCHANGED derivation

(***************************************************************************)
(* Final passphrase: the click handler of finalBtn                         *)
(***************************************************************************)
\* expectedFinal with the words joined without a separator.
expectedFinalUnhyphened(cl) == norm(join(cl, NoString))

\* const expected = norm(clues.join('-'))
expectedFinal(cl) == The({ norm(joined) : joined \in {join(cl, <<"-">>)} })

\* A disabled button receives no click.
FinalClick ==
  /\ pc = "ready"
  /\ ~finalDisabled
  /\ \E given \in {norm(finalInput)}, expected \in {expectedFinal(clues)} :
       IF given = expected
       THEN /\ finalMsg' = MsgFinalOk
            /\ console' = MsgFinalOk
       ELSE /\ finalMsg' = MsgFinalBad
            /\ console' = MsgFinalBad
  /\ UNCHANGED <<search, storage, pc, current, answer, hintBox, correctLog,
                 finalInput, finalDisabled, ns, prev>>
  /\ UNCHANGED derivation

(***************************************************************************)
(* Regenerate: the click handler of regenBtn                               *)
(***************************************************************************)
\* sessionStorage.setItem('clue_seed', ns); location.reload(): the document
\* and its script state are discarded, location.search and the storage stay.
RegenClick ==
  /\ pc = "ready"
  /\ \E rnd \in RandomValues :
       /\ ns' = toString36(rnd)
       /\ storage' = toString36(rnd)
  /\ prev' = [seed |-> seed, clues |-> clues, mapping |-> mapping, cells |-> cells]
  /\ pc' = "getSeed"
  /\ seed' = NoString
  /\ x' = U32(0, 0)
  /\ clues' = <<>>
  /\ mapping' = <<>>
  /\ cells' = emptyGrid
  /\ j' = 0
  /\ current' = 0
  /\ answer' = NoString
  /\ hintBox' = MsgNone
  /\ correctLog' = <<>>
  /\ console' = MsgNone
  /\ finalInput' = NoString
  /\ finalDisabled' = finalInitiallyDisabled
  /\ finalMsg' = MsgNone
  /\ UNCHANGED search

(***************************************************************************)
(* The console helper API, window._clueApi                                 *)
(***************************************************************************)
\* masked handing out the mapping entry itself.
maskedWhole(m) == m

\* m => ({ start: m.start, len: m.len })
masked(m) == [start |-> m.start, len |-> m.len]

maskedAll(mp) == [i \in DOMAIN mp |-> masked(mp[i])]

\* What revealWord prints for the entry m at index.
revealMsg(index, m) ==
  [kind |-> "reveal", index |-> index, len |-> m.len, start |-> m.start]

ListMapping ==
  /\ pc = "ready"
  /\ console' = [kind |-> "listMapping", entries |-> maskedAll(mapping)]
  /\ UNCHANGED <<search, storage, pc, current, answer, hintBox, correctLog,
                 finalInput, finalDisabled, finalMsg, ns, prev>>
  /\ UNCHANGED derivation

\* revealWord(index)
RevealWordAt(index) ==
  /\ pc = "ready"
  /\ IF index < 0 \/ index >= Len(mapping)
     THEN console' = MsgRange
     ELSE console' = revealMsg(index, at(mapping, index))
  /\ UNCHANGED <<search, storage, pc, current, answer, hintBox, correctLog,
                 finalInput, finalDisabled, finalMsg, ns, prev>>
  /\ UNCHANGED derivation

RevealWord == \E index \in RevealIndexes : RevealWordAt(index)

CluesMasked ==
  /\ pc = "ready"
  /\ console' = [kind |-> "cluesMasked", entries |-> maskedAll(mapping)]
  /\ UNCHANGED <<search, storage, pc, current, answer, hintBox, correctLog,
                 finalInput, finalDisabled, finalMsg, ns, prev>>
  /\ UNCHANGED derivation

Next ==
  \/ GetSeed
  \/ SelectClue
  \/ PlaceWord
  \/ PlaceChar
  \/ LoadThrows
  \/ FinishLoad
  \/ TypeAnswer
  \/ SubmitClick
  \/ HintClick
  \/ TypeFinal
  \/ FinalClick
  \/ RegenClick
  \/ ListMapping
  \/ RevealWord
  \/ CluesMasked

Spec == Init /\ [][Next]_vars

(***************************************************************************)
(* Properties                                                              *)
(***************************************************************************)
Ready == pc = "ready"

\* A step between two states of the same loaded document.
InDocument == Ready /\ Ready'

\* C1: the progress counter starts at 1 when the handlers are set up, stays in
\* 1 .. CLUE_COUNT + 1, changes only by +1 in a step that logs the clue of the
\* step as correct, and so equals one more than the number of correct answers:
\* CLUE_COUNT + 1 is reached only after CLUE_COUNT correct submissions.
C1_ProgressCounter ==
  /\ [](Ready => /\ current \in 1 .. (CLUE_COUNT + 1)
                 /\ Len(correctLog) = current - 1)
  /\ [][(~Ready /\ Ready') => current' = 1]_vars
  /\ [][(InDocument /\ current' # current) =>
          /\ current' = current + 1
          /\ SubmitClick
          /\ norm(answer) = norm(clues[current])
          /\ correctLog' = Append(correctLog, clues[current])]_vars

C1_Witness == Ready /\ current = CLUE_COUNT + 1 /\ answer = clues[CLUE_COUNT]
              /\ hintBox = MsgIncorrect

C3_StepSubmission ==
  [][(SubmitClick /\ current \in 1 .. CLUE_COUNT /\ strip(answer) # NoString) =>
       IF upperCased(strip(answer)) = clues[current]
       THEN /\ current' = current + 1
            /\ answer' = NoString
            /\ correctLog' = Append(correctLog, clues[current])
            /\ console' = MsgCorrect(clues[current])
       ELSE /\ current' = current
            /\ correctLog' = correctLog
            /\ hintBox' = MsgIncorrect
            /\ console' = MsgIncorrect]_vars

\* A step answered with the clue of the step before it was rejected, and a
\* later one answered correctly.
C3_Witness ==
  /\ Ready
  /\ current = 3
  /\ Len(correctLog) = 2
  /\ hintBox = MsgIncorrect
  /\ answer = clues[2]
  /\ clues[2] # clues[3]

\* C4: a click on the final button shows the success signal exactly when the
\* normalised passphrase equals the clue words joined by hyphens in selection
\* order; one word altered, the last word omitted, or two different words
\* exchanged give the retry signal; either way the step counter stays.
C4_FinalPassphrase ==
  [][FinalClick =>
       /\ current' = current
       /\ finalDisabled' = finalDisabled
       /\ IF upperCased(strip(finalInput)) = Passphrase
          THEN finalMsg' = MsgFinalOk /\ console' = MsgFinalOk
          ELSE finalMsg' = MsgFinalBad /\ console' = MsgFinalBad
       /\ (finalInput \in {Altered, Omitted, Unhyphened}) => finalMsg' = MsgFinalBad
       /\ (finalInput = Reordered /\ clues[1] # clues[2]) => finalMsg' = MsgFinalBad
       /\ (finalInput = Sloppy(Passphrase)) => finalMsg' = MsgFinalOk]_vars

C4_Witness ==
  /\ Ready
  /\ finalInput = Altered
  /\ finalMsg = MsgFinalBad
  /\ console = MsgFinalBad
  /\ current = CLUE_COUNT + 1

\* C5: once the success signal is shown, no later step of the same document
\* replaces it.
C5_SolvedIsTerminal ==
  [][(InDocument /\ finalMsg = MsgFinalOk) => finalMsg' = MsgFinalOk]_vars

\* C6: a document that has derived all its data from the seed the replaced
\* document had holds the same clue sequence, the same mapping and the same
\* cell tokens and colours as that document.
C6_Determinism ==
  (pc = "place" /\ Len(mapping) >= Len(clues) /\ prev.seed = seed) =>
    /\ clues = prev.clues
    /\ mapping = prev.mapping
    /\ cells = prev.cells

C6_Witness ==
  /\ pc = "place"
  /\ Len(mapping) = CLUE_COUNT
  /\ prev.seed = seed
  /\ search = NoString
  /\ Len(prev.clues) = CLUE_COUNT

\* C7: every mapping entry has len = min(word length, 6) and a start in
\* 0 .. 32 - len, and the cell the inner loop is about to write is a cell of
\* the grid.
C7_PlacementInGrid ==
  /\ \A i \in DOMAIN mapping :
       /\ mapping[i].len = Min(Len(mapping[i].word), 6)
       /\ mapping[i].len <= 6
       /\ mapping[i].start >= 0
       /\ mapping[i].start <= 32 - mapping[i].len
       /\ \A k \in 0 .. (mapping[i].len - 1) : (mapping[i].start + k) \in 0 .. 31
  /\ (pc = "chars" /\ j < mapping[Len(mapping)].len) =>
       (mapping[Len(mapping)].start + j) \in DOMAIN cells
  /\ DOMAIN cells = 0 .. 31

\* A finished placement with a word longer than six characters.
C7_Witness ==
  /\ Ready
  /\ Len(mapping) = CLUE_COUNT
  /\ \E i \in DOMAIN mapping : Len(mapping[i].word) > 6 /\ mapping[i].len = 6

\* Every character of s is one that normalisation removes.
OnlyRemoved(s) == \A i \in DOMAIN s : s[i] \notin KeptSet

\* C8: a step submission of an answer that is empty or holds only characters
\* other than ASCII letters, digits and hyphen shows the missing-input signal,
\* logs nothing (so no incorrect-answer line) and changes neither the step nor
\* the success log, at every step and in the final phase.
C8_MissingInput ==
  [][(SubmitClick /\ OnlyRemoved(answer)) =>
       /\ hintBox' = MsgMissing
       /\ console' = console
       /\ current' = current
       /\ correctLog' = correctLog]_vars

C8_Witness ==
  /\ Ready
  /\ current = CLUE_COUNT + 1
  /\ answer = Junk
  /\ hintBox = MsgMissing

\* The fields of a masked entry, and of the messages that carry one entry.
MaskedFields == {"start", "len"}
EntryFields  == {"kind", "index", "start", "len"}

Diagnostic == HintClick \/ ListMapping \/ RevealWord \/ CluesMasked

\* C9: the hint and the diagnostic operations show start offsets and lengths
\* and no word; none of them changes the step, the clues, the mapping, the seed
\* or the stored seed; a hint that is shown is the entry at index current - 1.
C9_HintsMasked ==
  /\ [](/\ hintBox.kind = "hint" => DOMAIN hintBox = EntryFields
        /\ console.kind \in {"hint", "reveal"} => DOMAIN console = EntryFields
        /\ console.kind \in {"listMapping", "cluesMasked"} =>
             /\ Len(console.entries) = Len(mapping)
             /\ \A i \in DOMAIN console.entries :
                  /\ DOMAIN console.entries[i] = MaskedFields
                  /\ console.entries[i].start = mapping[i].start
                  /\ console.entries[i].len = mapping[i].len)
  /\ [][Diagnostic => UNCHANGED <<current, clues, mapping, seed, storage>>]_vars
  /\ [][(HintClick /\ current <= CLUE_COUNT) =>
          /\ hintBox' = [kind |-> "hint", index |-> current - 1,
                         start |-> mapping[current].start,
                         len |-> mapping[current].len]
          /\ console' = hintBox']_vars

C9_Witness ==
  /\ Ready
  /\ hintBox.kind = "hint"
  /\ hintBox.index = 4
  /\ current = 5
  /\ console.kind = "listMapping"

\* C10: the document loaded after a regenerate click plays with the seed that
\* click stored.
C10_RegenerateTakesEffect ==
  [][(pc = "getSeed" /\ ns # NoString) => seed' = ns]_vars

\* C11: getSeed returns a non-empty string and leaves the storage holding the
\* value returned: the ?seed= value when there is one, else the stored value,
\* which stays, else a newly generated one; getSeed called again without a
\* ?seed= value returns the same value and leaves the storage as it is.
C11_GetSeed ==
  [][GetSeed =>
       /\ seed' # NoString
       /\ storage' = seed'
       /\ (search # NoString) => seed' = search
       /\ (search = NoString /\ storage # NoString) => seed' = storage
       /\ (search = NoString /\ storage = NoString) =>
            \E rnd \in RandomValues : seed' = toString36(rnd)
       /\ \A rnd \in RandomValues :
            getSeed(NoString, storage', rnd) = [seed |-> seed', storage |-> storage']]_vars

\* getSeed has returned the value a regenerate click stored, another one than
\* the seed of the document before.
C11_Witness ==
  /\ pc = "select"
  /\ search = NoString
  /\ prev.seed # NoString
  /\ seed # prev.seed
  /\ seed = storage

\* The state a hint or reveal request must leave alone.
gameState == <<search, storage, pc, seed, x, clues, mapping, cells, j, current,
               answer, correctLog, finalInput, finalDisabled, finalMsg>>

\* C12: revealWord with an index below 0 or of CLUE_COUNT and more logs
\* 'index out of range' and nothing else, and the hint button pressed in the
\* final phase (current - 1 = CLUE_COUNT) logs and shows nothing; neither
\* changes the game state or the hint box.
C12_OutOfRange ==
  /\ [][\A index \in RevealIndexes :
          (RevealWordAt(index) /\ (index < 0 \/ index >= CLUE_COUNT)) =>
            /\ console' = MsgRange
            /\ hintBox' = hintBox
            /\ UNCHANGED gameState]_vars
  /\ [][(HintClick /\ current - 1 = CLUE_COUNT) => UNCHANGED vars]_vars

\* In the final phase, with a hint of an earlier step still on show, the
\* console's last line is the out-of-range one.
C12_Witness ==
  /\ Ready
  /\ current = CLUE_COUNT + 1
  /\ console = MsgRange
  /\ hintBox.kind = "hint"

\* The generator state whose quotient by 0xFFFFFFFF is 1.0.
AllOnes == U32(W - 1, W - 1)

\* C14: no draw returns 1.0 (the generator never holds 0xFFFFFFFF after a
\* draw), every clue selected is a word of the list, and the clue sequence is
\* complete, CLUE_COUNT words, once the selection loop is left.
C14_DrawsBelowOne ==
  /\ (clues # <<>>) => x # AllOnes
  /\ \A i \in DOMAIN clues : clues[i] \in Range(WORDS)
  /\ (pc \in {"place", "chars", "ready", "crashed"}) => Len(clues) = CLUE_COUNT

\* The generator two, four and eight draws after it held x0.
drawn2(x0) == The({ xorshift32(x1) : x1 \in {xorshift32(x0)} })

drawn4(x0) == The({ drawn2(x2) : x2 \in {drawn2(x0)} })

drawn8(x0) == The({ drawn4(x4) : x4 \in {drawn4(x0)} })

\* The generator n draws after it held x0, eight draws at a time while there
\* are that many left.
RECURSIVE drawn(_, _)
drawn(x0, n) ==
  IF n = 0 THEN x0
  ELSE IF n >= 8 THEN The({ drawn(x8, n - 8) : x8 \in {drawn8(x0)} })
  ELSE The({ drawn(x1, n - 1) : x1 \in {xorshift32(x0)} })

\* The draws of the placement of the first n mapping entries, all characters
\* included: 1 + len for each.
RECURSIVE placementDraws(_, _)
placementDraws(mp, n) ==
  IF n = 0 THEN 0 ELSE placementDraws(mp, n - 1) + 1 + mp[n].len

\* The draws made so far by a load handler that is under way.
drawsSoFar ==
  Len(clues) + placementDraws(mapping, Len(mapping))
    - (IF pc = "chars" THEN mapping[Len(mapping)].len - j ELSE 0)

Loading == pc \in {"select", "place", "chars"}

\* C15: one generator, made from the seed once, is drawn from in a fixed
\* order.  While the handler loads, the generator is the seed's generator
\* after exactly the draws made so far, which at the end of the placement are
\* CLUE_COUNT + the sum of 1 + len over the clues.  Each selection step is one
\* draw and appends the word at the drawn index, and placement starts only
\* when all clues are selected; each placement head is one draw, giving the
\* start of the next clue in selection order; it is followed by len steps of
\* one draw each, giving the colour of characters 0 .. len - 1 in order, before
\* the next head; outside these steps the generator is not touched.
C15_DrawOrder ==
  /\ [](Loading => x = drawn(seedToInt(seed), drawsSoFar))
  /\ [](mapping # <<>> => Len(clues) = CLUE_COUNT)
  /\ [][pc = "select" =>
          /\ x' = xorshift32(x)
          /\ clues' = Append(clues, at(WORDS, FloorMul(x', Len(WORDS))))
          /\ UNCHANGED <<mapping, cells>>]_vars
  /\ [][(pc = "place" /\ pc' = "chars") =>
          /\ x' = xorshift32(x)
          /\ Len(mapping') = Len(mapping) + 1
          /\ SubSeq(mapping', 1, Len(mapping)) = mapping
          /\ mapping'[Len(mapping')].word = clues[Len(mapping')]
          /\ mapping'[Len(mapping')].start =
               FloorMul(x', totalCells - mapping'[Len(mapping')].len)
          /\ j' = 0
          /\ UNCHANGED <<clues, cells>>]_vars
  /\ [][pc = "chars" =>
          /\ j < mapping[Len(mapping)].len
          /\ x' = xorshift32(x)
          /\ j' = j + 1
          /\ cells'[mapping[Len(mapping)].start + j].c = colorCode(x')
          /\ cells'[mapping[Len(mapping)].start + j].t =
               charToken(clues[Len(mapping)][j + 1])
          /\ pc' = (IF j' < mapping[Len(mapping)].len THEN "chars" ELSE "place")
          /\ UNCHANGED <<clues, mapping>>]_vars
  /\ [][(pc = "place" /\ pc' # "chars") => x' = x]_vars
  /\ [][InDocument => x' = x]_vars

\* The placement of the ten clues of seed test1 is complete.
C15_Witness ==
  /\ pc = "place"
  /\ Len(mapping) = CLUE_COUNT
  /\ seed = SeedTest1
  /\ drawsSoFar = CLUE_COUNT + placementDraws(mapping, CLUE_COUNT)
  /\ drawsSoFar > 2 * CLUE_COUNT
  /\ x = drawn(seedToInt(seed), drawsSoFar)

\* C16: a click on the final button with a passphrase that is empty after
\* normalisation does not give the incorrect/retry signal, in the message or
\* in the log, and leaves the step counter alone.
C16_FinalMissingInput ==
  [][(FinalClick /\ OnlyRemoved(finalInput)) =>
       /\ finalMsg' # MsgFinalBad
       /\ console' # MsgFinalBad
       /\ current' = current]_vars

\* C17: once the load handler has returned, every clue's first len characters
\* are the tokens of the cells start .. start + len - 1 of its mapping entry.
C17_WordsReadable ==
  Ready =>
    \A i \in DOMAIN mapping :
      \A k \in 0 .. (mapping[i].len - 1) :
        cells[mapping[i].start + k].t = charToken(clues[i][k + 1])

\* A step submission that does anything but reject the answer: the step, the
\* log, the answer field and the final controls stay and the incorrect signal
\* is shown and logged.
SubmitNotRejected ==
  /\ SubmitClick
  /\ ~(/\ current' = current
       /\ correctLog' = correctLog
       /\ answer' = answer
       /\ finalDisabled' = finalDisabled
       /\ hintBox' = MsgIncorrect
       /\ console' = MsgIncorrect)

\* C18: in every state of a loaded document (playing, final phase, success
\* shown) a click on the submit, hint and regenerate buttons, and on the final
\* button once it is enabled, runs its handler to the end; a step submission
\* in the final phase, where there is no clue at index CLUE_COUNT, with an
\* answer that is not empty after normalisation matches nothing: the step
\* stays at CLUE_COUNT + 1, nothing is logged as correct and the incorrect
\* signal is shown and logged.
C18_ActionsTotal ==
  Ready =>
    /\ ENABLED SubmitClick
    /\ ENABLED HintClick
    /\ ENABLED RegenClick
    /\ (~finalDisabled) => ENABLED FinalClick
    /\ (current = CLUE_COUNT + 1) =>
         /\ ~has(clues, current - 1)
         /\ expectedStep(clues, current) = NoString
         /\ (strip(answer) # NoString) => ~ENABLED SubmitNotRejected

\* With the success message on show, a step submission of the last clue was
\* answered with the incorrect signal.
C18_Witness ==
  /\ Ready
  /\ current = CLUE_COUNT + 1
  /\ finalMsg = MsgFinalOk
  /\ answer = clues[CLUE_COUNT]
  /\ hintBox = MsgIncorrect
  /\ console = MsgIncorrect

(***************************************************************************)
(* norm on its own: applied to a string, then to its own result            *)
(***************************************************************************)
\* The longest string norm is applied to.
MaxLen == 3

\* A letter of each case, a digit, the hyphen, and two characters outside the
\* kept set.
NormAlphabet == {"a", "Z", "7", "-", "!", " "}

NormInputs ==
  {Undefined} \cup UNION {[1 .. n -> NormAlphabet] : n \in 0 .. MaxLen}

\* answer holds the argument x; console will hold norm(x) and norm(norm(x)).
NormInit ==
  /\ answer \in NormInputs
  /\ pc = "norm"
  /\ console = MsgNone
  /\ search = NoString
  /\ storage = NoString
  /\ seed = NoString
  /\ x = U32(0, 0)
  /\ clues = <<>>
  /\ mapping = <<>>
  /\ cells = emptyGrid
  /\ j = 0
  /\ current = 0
  /\ hintBox = MsgNone
  /\ correctLog = <<>>
  /\ finalInput = NoString
  /\ finalDisabled = finalInitiallyDisabled
  /\ finalMsg = MsgNone
  /\ ns = NoString
  /\ prev = NoRun

\* norm(x)
NormOnce ==
  /\ pc = "norm"
  /\ console' = [kind |-> "norm", once |-> norm(answer)]
  /\ pc' = "normed"
  /\ UNCHANGED <<search, storage, current, answer, hintBox, correctLog,
                 finalInput, finalDisabled, finalMsg, ns, prev>>
  /\ UNCHANGED derivation

\* norm(norm(x))
NormTwice ==
  /\ pc = "normed"
  /\ console' = [kind |-> "norm", once |-> console.once,
                 twice |-> norm(console.once)]
  /\ pc' = "normedTwice"
  /\ UNCHANGED <<search, storage, current, answer, hintBox, correctLog,
                 finalInput, finalDisabled, finalMsg, ns, prev>>
  /\ UNCHANGED derivation

NormNext ==
  \/ NormOnce
  \/ NormTwice

NormSpec == NormInit /\ [][NormNext]_vars

\* C13: for every string x over letters of both cases, digits, the hyphen and
\* other characters, norm(x) holds only upper-case letters, digits and
\* hyphens, and norm(norm(x)) = norm(x).
C13_NormIdempotent ==
  /\ pc \in {"normed", "normedTwice"} =>
       Range(console.once) \subseteq (UpperSet \cup DigitSet \cup {"-"})
  /\ pc = "normedTwice" => console.twice = console.once

\* norm applied twice to a string with a lower-case letter, a removed
\* character and a hyphen.
C13_Witness ==
  /\ pc = "normedTwice"
  /\ answer = <<"a", "!", "-">>
  /\ console.once = <<"A", "-">>
  /\ console.twice = <<"A", "-">>

====
